---- MODULE Spec2Model ----
(***************************************************************************)
(* Session lifecycle controller of the kiosk front end                     *)
(* (src/src/providers/session-provider.tsx): hydration, the one-time       *)
(* initialization pass, the proactive token-refresh interval and the       *)
(* token-store adapter, over the global session store.                     *)
(*                                                                         *)
(* One mount of SessionProvider is modelled.  React runs the passive       *)
(* effects of a commit in declaration order and before anything else of    *)
(* the component: effectQueue holds the effects still to run, and timers,  *)
(* promise continuations and renders wait until it is empty.               *)
(* Time is in milliseconds; the clock moves in steps of the check          *)
(* interval.                                                               *)
(*                                                                         *)
(* The store itself (stores/session-store) and the API client (lib/api)    *)
(* are collaborators: the store's mutators are operators on the store      *)
(* record, the API client's calls are awaited results that resolve or      *)
(* reject, and its writes through the registered token store are the       *)
(* Adapter actions.                                                        *)
(***************************************************************************)
EXTENDS Integers, Sequences, FiniteSets, TLC

VARIABLES
    store,            \* useSessionStore.getState(): the global session state
    now,              \* Date.now()
    mounted,          \* the provider is mounted
    isHydrated,       \* useState(false), as rendered
    hydrationPending, \* setIsHydrated(true) was called, not yet rendered
    hasInitialized,   \* useRef(false).current
    tenantSlugProp,   \* the tenantSlug prop of this mount
    storedTenantSlug, \* store.tenantSlug as captured by the last render
    storedTenant,     \* store.tenant as captured by the last render
    effectQueue,      \* effects of the last commit that have not run yet
    intervals,        \* number of live setInterval timers
    cleanup,          \* the interval effect's last run returned a cleanup
    tokenStore,       \* setTokenStore(...) has registered the adapter
    apiTenantId,      \* tenant id registered with api.setTenantId
    initPc,           \* initSession: "idle", "fetching" (awaiting), "done"
    initClosure,      \* tenantSlug / storedTenantSlug closed over by initSession
    refreshInFlight,  \* refreshDeviceToken calls awaiting, per token sent
    calls,            \* how often the controller made each call
    last              \* the operation that produced this state

vars == <<store, now, mounted, isHydrated, hydrationPending, hasInitialized,
          tenantSlugProp, storedTenantSlug, storedTenant, effectQueue,
          intervals, cleanup, tokenStore, apiTenantId, initPc, initClosure,
          refreshInFlight, calls, last>>

----------------------------------------------------------------------------
(* Bounds of the model *)

\* the clock stops after this many check intervals
MaxTicks == 2

\* at most this many refreshDeviceToken calls await their response at once
MaxInFlight == 2

----------------------------------------------------------------------------
(* Values *)

NULL == "null"

\* no accessTokenExpiresAt
NoExpiry == -1

REFRESH_THRESHOLD_MS == 5 * 60 * 1000

REFRESH_CHECK_INTERVAL_MS == 60 * 1000

\* JavaScript truthiness of an optional string
Truthy(v) == v \notin {NULL, ""}

DeviceTenantId == "T1"

DeviceInfo == [tenantId |-> DeviceTenantId]

\* deviceInfo: null
NoDevice == [tenantId |-> NULL]

PersistedTenant == [id |-> DeviceTenantId, slug |-> "persisted-slug"]

\* what getCurrentTenant() may resolve to
FetchedTenants == {[id |-> DeviceTenantId, slug |-> "fetched-slug"]}

\* tenant: null
NoTenant == [id |-> NULL, slug |-> NULL]

SlugProps == {NULL, "", "prop-slug"}

StoredSlugs == {NULL, "", "stored-slug"}

\* what refreshDeviceToken() may resolve to
RefreshResponses ==
    { [accessToken |-> "a1", refreshToken |-> "r1", expiresIn |-> 240],
      [accessToken |-> "a2", refreshToken |-> "r2", expiresIn |-> 420] }

RefreshTokens == {"r0"} \cup {r.refreshToken : r \in RefreshResponses}

\* what getCurrentTenant() may reject with
FetchErrors ==
    { [isObject |-> TRUE,  hasStatus |-> TRUE,  status |-> 401],
      [isObject |-> TRUE,  hasStatus |-> TRUE,  status |-> 403],
      [isObject |-> TRUE,  hasStatus |-> TRUE,  status |-> 500],
      [isObject |-> TRUE,  hasStatus |-> FALSE, status |-> 0],
      [isObject |-> FALSE, hasStatus |-> FALSE, status |-> 0] }

----------------------------------------------------------------------------
(* The session store (stores/session-store): its mutators and predicate *)

setTenant(s, slug, tenant) == [s EXCEPT !.tenantSlug = slug, !.tenant = tenant]

setInitialized(s, v) == [s EXCEPT !.isInitialized = v]

updateTokens(s, accessToken, refreshToken, expiresIn, t) ==
    [s EXCEPT !.accessToken = accessToken,
              !.refreshToken = refreshToken,
              !.accessTokenExpiresAt = t + expiresIn * 1000]

clearDeviceSession(s) ==
    [s EXCEPT !.deviceInfo = NoDevice,
              !.isDeviceAuthenticated = FALSE,
              !.accessToken = NULL,
              !.refreshToken = NULL,
              !.accessTokenExpiresAt = NoExpiry]

isTokenExpiringSoon(s, thresholdMs, t) ==
    \/ s.accessTokenExpiresAt = NoExpiry
    \/ s.accessTokenExpiresAt - t <= thresholdMs

\* the device authentication flow: a device completes authentication
setDeviceSession(s, t) ==
    [s EXCEPT !.deviceInfo = DeviceInfo,
              !.isDeviceAuthenticated = TRUE,
              !.accessToken = "a0",
              !.refreshToken = "r0",
              !.accessTokenExpiresAt = t + 360000]

\* the device-session fields of the store
Session(s) == <<s.deviceInfo, s.isDeviceAuthenticated, s.accessToken,
                s.refreshToken, s.accessTokenExpiresAt>>

\* the session states the store hydrates from persisted storage
HydratedStores ==
    { [tenantSlug |-> slug, tenant |-> tenant, deviceInfo |-> d.deviceInfo,
       isDeviceAuthenticated |-> d.isDeviceAuthenticated,
       accessToken |-> d.accessToken, refreshToken |-> d.refreshToken,
       accessTokenExpiresAt |-> d.accessTokenExpiresAt,
       isInitialized |-> FALSE] :
      slug \in StoredSlugs, tenant \in {NoTenant, PersistedTenant},
      d \in { [deviceInfo |-> NoDevice, isDeviceAuthenticated |-> FALSE,
               accessToken |-> NULL, refreshToken |-> NULL,
               accessTokenExpiresAt |-> NoExpiry] }
            \cup
            { [deviceInfo |-> DeviceInfo, isDeviceAuthenticated |-> TRUE,
               accessToken |-> "a0", refreshToken |-> r,
               accessTokenExpiresAt |-> e] :
              r \in {"r0", NULL}, e \in {240000, 420000} } }

----------------------------------------------------------------------------
(* The controller *)

NoError == [isObject |-> FALSE, hasStatus |-> FALSE, status |-> -1]

NoResponse == [accessToken |-> NULL, refreshToken |-> NULL, expiresIn |-> 0]

\* the record of an operation: its name and the values it was given
Op(name, sent, response, error) ==
    [op |-> name, sent |-> sent, response |-> response, error |-> error]

Did(name) == Op(name, NULL, NoResponse, NoError)

Count(name) == [calls EXCEPT ![name] = @ + 1]

InFlightTotal(f) ==
    LET RECURSIVE Sum(_)
        Sum(S) == IF S = {} THEN 0
                  ELSE LET x == CHOOSE y \in S : TRUE IN f[x] + Sum(S \ {x})
    IN Sum(DOMAIN f)

\* proactiveRefresh without the check of isDeviceAuthenticated
RefreshDueWithoutSession(s, t) ==
    /\ s.refreshToken # NULL
    /\ isTokenExpiringSoon(s, REFRESH_THRESHOLD_MS, t)

\* proactiveRefresh: both early returns passed
RefreshDue(s, t) ==
    /\ s.isDeviceAuthenticated
    /\ s.refreshToken # NULL
    /\ isTokenExpiringSoon(s, REFRESH_THRESHOLD_MS, t)

\* proactiveRefresh up to its await, on the state s read at time t
proactiveRefresh(s, t) ==
    IF RefreshDue(s, t)
    THEN refreshInFlight' =
             [refreshInFlight EXCEPT ![s.refreshToken] = @ + 1]
    ELSE UNCHANGED refreshInFlight

\* the cap of the model on calls in flight leaves room for proactiveRefresh
RoomToRefresh(s, t) ==
    RefreshDue(s, t) => InFlightTotal(refreshInFlight) < MaxInFlight

\* the interval effect returning no cleanup
AfterCleanupMissing(n, registered) == n

\* the cleanup of the interval effect: clearInterval(intervalId)
AfterCleanup(n, registered) == IF registered THEN n - 1 ELSE n

\* the init effect without its latch
InitGuardNoLatch(hydrated, latch) == hydrated

\* the guard of the init effect
InitGuard(hydrated, latch) == hydrated /\ ~latch

\* the authentication check that trusts the flag alone
IsAuthenticatedByFlag(s) == s.isDeviceAuthenticated

\* initSession: "device is already authenticated"
IsAuthenticated(s) ==
    /\ s.isDeviceAuthenticated
    /\ s.deviceInfo # NoDevice
    /\ s.accessToken # NULL

\* initSession fetching the tenant whether or not one is persisted
HasPersistedTenantIgnored(s) == FALSE

\* initSession: "use persisted tenant if available"
HasPersistedTenant(s) == s.tenant # NoTenant

\* the slug choice with the stored slug ahead of the tenantSlug prop
slugToUseStoredFirst(tenantSlug, stored, tenant) ==
    IF Truthy(stored) THEN stored
    ELSE IF Truthy(tenantSlug) THEN tenantSlug
    ELSE tenant.slug

\* initSession: the slug stored with a fetched tenant
slugToUse(tenantSlug, stored, tenant) ==
    IF Truthy(tenantSlug) THEN tenantSlug
    ELSE IF Truthy(stored) THEN stored
    ELSE tenant.slug

\* the tenant-fetch catch clearing the session for every error status
ClearsSessionOnAnyStatus(error) == error.isObject /\ error.hasStatus

\* initSession: the tenant-fetch catch clears the session for this error
ClearsSession(error) ==
    /\ error.isObject
    /\ error.hasStatus
    /\ error.status = 401 \/ error.status = 403

\* the tenant-fetch catch emptying the tokens instead of clearing the session
AfterFetchCatchEmptiesTokens(s, error) ==
    setInitialized(IF ClearsSession(error)
                   THEN [s EXCEPT !.accessToken = NULL, !.refreshToken = NULL]
                   ELSE s,
                   TRUE)

\* the tenant-fetch catch returning once it has cleared the session
AfterFetchCatchReturns(s, error) ==
    IF ClearsSession(error) THEN clearDeviceSession(s)
    ELSE setInitialized(s, TRUE)

\* initSession from the tenant-fetch catch to its end
AfterFetchCatch(s, error) ==
    setInitialized(IF ClearsSession(error) THEN clearDeviceSession(s) ELSE s,
                   TRUE)

\* the catch of the refresh call clearing the device session
AfterRefreshCatchClears(s) == clearDeviceSession(s)

\* proactiveRefresh: the catch of the refresh call
AfterRefreshCatch(s) == s

Pop == effectQueue' = Tail(effectQueue)

Idle == effectQueue = <<>>

\* persisted storage that holds any combination of the session fields
StoredSessions ==
    { [tenantSlug |-> slug, tenant |-> tenant, deviceInfo |-> device,
       isDeviceAuthenticated |-> auth, accessToken |-> access,
       refreshToken |-> refresh,
       accessTokenExpiresAt |-> IF access = NULL THEN NoExpiry ELSE 240000,
       isInitialized |-> FALSE] :
      slug \in StoredSlugs, tenant \in {NoTenant, PersistedTenant},
      device \in {NoDevice, DeviceInfo}, auth \in BOOLEAN,
      access \in {NULL, "a0"}, refresh \in {NULL, "r0"} }

Mounted(stores) ==
    /\ store \in stores
    /\ now = 0
    /\ mounted = TRUE
    /\ isHydrated = FALSE
    /\ hydrationPending = FALSE
    /\ hasInitialized = FALSE
    /\ tenantSlugProp \in SlugProps
    /\ storedTenantSlug = store.tenantSlug
    /\ storedTenant = store.tenant
    /\ effectQueue = <<"hydration", "tokenStore", "refreshInterval", "init">>
    /\ intervals = 0
    /\ cleanup = FALSE
    /\ tokenStore = FALSE
    /\ apiTenantId = NULL
    /\ initPc = "idle"
    /\ initClosure = [tenantSlug |-> NULL, storedTenantSlug |-> NULL]
    /\ refreshInFlight = [r \in RefreshTokens |-> 0]
    /\ calls = [initSession |-> 0, setTenantId |-> 0, getCurrentTenant |-> 0,
                setInitialized |-> 0]
    /\ last = Did("mount")

\* the provider has mounted over a store hydrated by the application
Init == Mounted(HydratedStores)

\* the provider has mounted over a store hydrated from any storage content
InitAnyStorage == Mounted(StoredSessions)

\* useEffect(() => setIsHydrated(true), [])
HydrationEffect ==
    /\ effectQueue # <<>> /\ Head(effectQueue) = "hydration"
    /\ Pop
    /\ hydrationPending' = TRUE
    /\ last' = Did("HydrationEffect")
    /\ UNCHANGED <<store, now, mounted, isHydrated, hasInitialized,
                   tenantSlugProp, storedTenantSlug, storedTenant, intervals,
                   cleanup, tokenStore, apiTenantId, initPc, initClosure,
                   refreshInFlight, calls>>

\* the effect that registers the token store with the API client
TokenStoreEffect ==
    /\ effectQueue # <<>> /\ Head(effectQueue) = "tokenStore"
    /\ Pop
    /\ tokenStore' = (tokenStore \/ isHydrated)
    /\ last' = Did("TokenStoreEffect")
    /\ UNCHANGED <<store, now, mounted, isHydrated, hydrationPending,
                   hasInitialized, tenantSlugProp, storedTenantSlug,
                   storedTenant, intervals, cleanup, apiTenantId, initPc,
                   initClosure, refreshInFlight, calls>>

\* the effect that runs proactiveRefresh and starts the interval
RefreshIntervalEffect ==
    /\ effectQueue # <<>> /\ Head(effectQueue) = "refreshInterval"
    /\ Pop
    /\ IF ~isHydrated
       THEN /\ intervals' = AfterCleanup(intervals, cleanup)
            /\ cleanup' = FALSE
            /\ UNCHANGED refreshInFlight
       ELSE /\ proactiveRefresh(store, now)
            /\ intervals' = AfterCleanup(intervals, cleanup) + 1
            /\ cleanup' = TRUE
    /\ last' = Did("RefreshIntervalEffect")
    /\ UNCHANGED <<store, now, mounted, isHydrated, hydrationPending,
                   hasInitialized, tenantSlugProp, storedTenantSlug,
                   storedTenant, tokenStore, apiTenantId, initPc, initClosure,
                   calls>>

\* initSession up to its first await or its return
initSession ==
    /\ initClosure' = [tenantSlug |-> tenantSlugProp,
                       storedTenantSlug |-> storedTenantSlug]
    /\ IF IsAuthenticated(store)
       THEN /\ apiTenantId' = store.deviceInfo.tenantId
            /\ IF HasPersistedTenant(store)
               THEN /\ store' = setInitialized(store, TRUE)
                    /\ initPc' = "done"
                    /\ calls' = [calls EXCEPT !.initSession = @ + 1,
                                              !.setTenantId = @ + 1,
                                              !.setInitialized = @ + 1]
               ELSE /\ initPc' = "fetching"
                    /\ calls' = [calls EXCEPT !.initSession = @ + 1,
                                              !.setTenantId = @ + 1,
                                              !.getCurrentTenant = @ + 1]
                    /\ UNCHANGED store
       ELSE /\ store' = setInitialized(store, TRUE)
            /\ initPc' = "done"
            /\ calls' = [calls EXCEPT !.initSession = @ + 1,
                                      !.setInitialized = @ + 1]
            /\ UNCHANGED apiTenantId

\* the effect that initializes the session once after hydration
InitEffect ==
    /\ effectQueue # <<>> /\ Head(effectQueue) = "init"
    /\ Pop
    /\ IF InitGuard(isHydrated, hasInitialized)
       THEN /\ hasInitialized' = TRUE
            /\ initSession
            /\ last' = Did("initSession")
       ELSE /\ last' = Did("InitEffect")
            /\ UNCHANGED <<store, hasInitialized, apiTenantId, initPc,
                           initClosure, calls>>
    /\ UNCHANGED <<now, mounted, isHydrated, hydrationPending, tenantSlugProp,
                   storedTenantSlug, storedTenant, intervals, cleanup,
                   tokenStore, refreshInFlight>>

\* a render of the provider, with the store's mutators as new functions
\* when mutatorsChanged: the effects whose dependencies changed are queued
Render(mutatorsChanged) ==
    /\ mounted /\ Idle
    /\ LET hydrated == isHydrated \/ hydrationPending
           e2 == hydrated # isHydrated \/ mutatorsChanged
           e4 == \/ e2
                 \/ store.tenantSlug # storedTenantSlug
                 \/ store.tenant # storedTenant
       IN /\ e4
          /\ e2 => RoomToRefresh(store, now)
          /\ isHydrated' = hydrated
          /\ effectQueue' =
                 (IF e2 THEN <<"tokenStore", "refreshInterval">> ELSE <<>>)
                 \o <<"init">>
    /\ hydrationPending' = FALSE
    /\ storedTenantSlug' = store.tenantSlug
    /\ storedTenant' = store.tenant
    /\ last' = Did("Render")
    /\ UNCHANGED <<store, now, mounted, hasInitialized, tenantSlugProp,
                   intervals, cleanup,
                   tokenStore, apiTenantId, initPc, initClosure,
                   refreshInFlight, calls>>

\* the provider unmounts: the effects' cleanups run
Unmount ==
    /\ mounted /\ Idle
    /\ mounted' = FALSE
    /\ hydrationPending' = FALSE
    /\ intervals' = AfterCleanup(intervals, cleanup)
    /\ cleanup' = FALSE
    /\ last' = Did("Unmount")
    /\ UNCHANGED <<store, now, isHydrated, hasInitialized, tenantSlugProp,
                   storedTenantSlug, storedTenant, effectQueue, tokenStore,
                   apiTenantId, initPc, initClosure, refreshInFlight, calls>>

\* setInterval fires proactiveRefresh after another check interval
IntervalTick ==
    /\ Idle
    /\ intervals >= 1
    /\ now < MaxTicks * REFRESH_CHECK_INTERVAL_MS
    /\ now' = now + REFRESH_CHECK_INTERVAL_MS
    /\ RoomToRefresh(store, now')
    /\ proactiveRefresh(store, now')
    /\ last' = Did("IntervalTick")
    /\ UNCHANGED <<store, mounted, isHydrated, hydrationPending,
                   hasInitialized, tenantSlugProp, storedTenantSlug,
                   storedTenant, effectQueue, intervals, cleanup, tokenStore,
                   apiTenantId, initPc, initClosure, calls>>

\* a check interval passes while no timer is live
TimePasses ==
    /\ Idle
    /\ intervals = 0
    /\ now < MaxTicks * REFRESH_CHECK_INTERVAL_MS
    /\ now' = now + REFRESH_CHECK_INTERVAL_MS
    /\ last' = Did("TimePasses")
    /\ UNCHANGED <<store, mounted, isHydrated, hydrationPending,
                   hasInitialized, tenantSlugProp, storedTenantSlug,
                   storedTenant, effectQueue, intervals, cleanup, tokenStore,
                   apiTenantId, initPc, initClosure, refreshInFlight, calls>>

\* refreshDeviceToken(sent) resolves: proactiveRefresh continues
RefreshResolve(sent, response) ==
    /\ Idle
    /\ refreshInFlight[sent] > 0
    /\ refreshInFlight' = [refreshInFlight EXCEPT ![sent] = @ - 1]
    /\ store' = updateTokens(store, response.accessToken,
                             response.refreshToken, response.expiresIn, now)
    /\ last' = Op("RefreshResolve", sent, response, NoError)
    /\ UNCHANGED <<now, mounted, isHydrated, hydrationPending, hasInitialized,
                   tenantSlugProp, storedTenantSlug, storedTenant,
                   effectQueue, intervals, cleanup, tokenStore, apiTenantId,
                   initPc, initClosure, calls>>

\* refreshDeviceToken(sent) rejects: proactiveRefresh logs and returns
RefreshReject(sent) ==
    /\ Idle
    /\ refreshInFlight[sent] > 0
    /\ refreshInFlight' = [refreshInFlight EXCEPT ![sent] = @ - 1]
    /\ store' = AfterRefreshCatch(store)
    /\ last' = Op("RefreshReject", sent, NoResponse, NoError)
    /\ UNCHANGED <<now, mounted, isHydrated, hydrationPending,
                   hasInitialized, tenantSlugProp, storedTenantSlug,
                   storedTenant, effectQueue, intervals, cleanup, tokenStore,
                   apiTenantId, initPc, initClosure, calls>>

\* getCurrentTenant() resolves: initSession stores the tenant and finishes
InitFetchResolve(tenant) ==
    /\ Idle
    /\ initPc = "fetching"
    /\ store' = setInitialized(
                    setTenant(store,
                              slugToUse(initClosure.tenantSlug,
                                        initClosure.storedTenantSlug, tenant),
                              tenant),
                    TRUE)
    /\ initPc' = "done"
    /\ calls' = Count("setInitialized")
    /\ last' = Did("InitFetchResolve")
    /\ UNCHANGED <<now, mounted, isHydrated, hydrationPending, hasInitialized,
                   tenantSlugProp, storedTenantSlug, storedTenant,
                   effectQueue, intervals, cleanup, tokenStore, apiTenantId,
                   initClosure, refreshInFlight>>

\* getCurrentTenant() rejects: the catch of initSession, then it finishes
InitFetchReject(error) ==
    /\ Idle
    /\ initPc = "fetching"
    /\ store' = AfterFetchCatch(store, error)
    /\ initPc' = "done"
    /\ calls' = Count("setInitialized")
    /\ last' = Op("InitFetchReject", NULL, NoResponse, error)
    /\ UNCHANGED <<now, mounted, isHydrated, hydrationPending, hasInitialized,
                   tenantSlugProp, storedTenantSlug, storedTenant,
                   effectQueue, intervals, cleanup, tokenStore, apiTenantId,
                   initClosure, refreshInFlight>>

\* the API client writes new tokens through the token store: setTokens
AdapterSetTokens(response) ==
    /\ Idle
    /\ tokenStore
    /\ store' = updateTokens(store, response.accessToken,
                             response.refreshToken, response.expiresIn, now)
    /\ last' = Op("AdapterSetTokens", NULL, response, NoError)
    /\ UNCHANGED <<now, mounted, isHydrated, hydrationPending, hasInitialized,
                   tenantSlugProp, storedTenantSlug, storedTenant,
                   effectQueue, intervals, cleanup, tokenStore, apiTenantId,
                   initPc, initClosure, refreshInFlight, calls>>

\* the API client clears the tokens through the token store: clearTokens
AdapterClearTokens ==
    /\ Idle
    /\ tokenStore
    /\ store' = clearDeviceSession(store)
    /\ last' = Did("AdapterClearTokens")
    /\ UNCHANGED <<now, mounted, isHydrated, hydrationPending, hasInitialized,
                   tenantSlugProp, storedTenantSlug, storedTenant,
                   effectQueue, intervals, cleanup, tokenStore, apiTenantId,
                   initPc, initClosure, refreshInFlight, calls>>

\* the device authentication flow authenticates the device
DeviceLogin ==
    /\ Idle
    /\ ~store.isDeviceAuthenticated
    /\ store' = setDeviceSession(store, now)
    /\ last' = Did("DeviceLogin")
    /\ UNCHANGED <<now, mounted, isHydrated, hydrationPending, hasInitialized,
                   tenantSlugProp, storedTenantSlug, storedTenant,
                   effectQueue, intervals, cleanup, tokenStore, apiTenantId,
                   initPc, initClosure, refreshInFlight, calls>>

InitFetchSettle ==
    \/ \E tenant \in FetchedTenants : InitFetchResolve(tenant)
    \/ \E error \in FetchErrors : InitFetchReject(error)

Next ==
    \/ HydrationEffect
    \/ TokenStoreEffect
    \/ RefreshIntervalEffect
    \/ InitEffect
    \/ \E mutatorsChanged \in BOOLEAN : Render(mutatorsChanged)
    \/ Unmount
    \/ IntervalTick
    \/ TimePasses
    \/ \E sent \in RefreshTokens, response \in RefreshResponses :
           RefreshResolve(sent, response)
    \/ \E sent \in RefreshTokens : RefreshReject(sent)
    \/ InitFetchSettle
    \/ \E response \in RefreshResponses : AdapterSetTokens(response)
    \/ AdapterClearTokens
    \/ DeviceLogin

Spec == Init /\ [][Next]_vars

SpecAnyStorage == InitAnyStorage /\ [][Next]_vars

\* the effects of a commit run, and a settled tenant fetch is delivered
LiveSpec ==
    /\ Spec
    /\ WF_vars(HydrationEffect)
    /\ WF_vars(TokenStoreEffect)
    /\ WF_vars(RefreshIntervalEffect)
    /\ WF_vars(InitEffect)
    /\ SF_vars(InitFetchSettle)

----------------------------------------------------------------------------
(* Claims *)

\* a step in which the init effect entered initSession
InitEntered == calls'.initSession = calls.initSession + 1

\* C1: in one mount initSession is entered at most once, whatever renders
\* and store updates re-run the init effect; the controller sets
\* isInitialized exactly when the pass ends, once, and never back to false.
C1_InitializedOnce ==
    /\ [](/\ calls.initSession <= 1
          /\ calls.setInitialized <= 1
          /\ calls.initSession = 1 <=> hasInitialized
          /\ calls.initSession = 1 <=> initPc # "idle"
          /\ calls.setInitialized = 1 <=> initPc = "done"
          /\ store.isInitialized <=> initPc = "done")
    /\ [][store.isInitialized => store'.isInitialized]_vars

\* the init effect ran again after the pass had ended, and returned
C1_Witness ==
    /\ last.op = "InitEffect"
    /\ isHydrated
    /\ calls.initSession = 1
    /\ store.isInitialized
    /\ store.tenant \in FetchedTenants

C3_UnauthenticatedInit ==
    [][(/\ InitEntered
        /\ \/ ~store.isDeviceAuthenticated
           \/ store.deviceInfo = NoDevice
           \/ store.accessToken = NULL)
       => /\ store'.isInitialized
          /\ initPc' = "done"
          /\ calls'.getCurrentTenant = 0
          /\ calls'.setTenantId = 0
          /\ apiTenantId' = apiTenantId
          /\ refreshInFlight' = refreshInFlight
          /\ Session(store') = Session(store)
          /\ store' = [store EXCEPT !.isInitialized = TRUE]]_vars

\* initSession ended on a session whose flag is set but whose token is missing
C3_Witness ==
    /\ last.op = "initSession"
    /\ store.isDeviceAuthenticated
    /\ store.deviceInfo # NoDevice
    /\ store.accessToken = NULL
    /\ store.isInitialized
    /\ apiTenantId = NULL

\* the session is authenticated as initSession reads it
AuthenticatedAtEntry ==
    /\ store.isDeviceAuthenticated
    /\ store.deviceInfo # NoDevice
    /\ store.accessToken # NULL

\* C4: initSession entered authenticated with a tenant persisted ends in
\* the same step with isInitialized true, without a tenant fetch, and with
\* the persisted tenant and slug as they were.
C4_PersistedTenantInit ==
    [][(InitEntered /\ AuthenticatedAtEntry /\ store.tenant # NoTenant)
       => /\ store'.isInitialized
          /\ initPc' = "done"
          /\ calls'.getCurrentTenant = 0
          /\ store'.tenant = store.tenant
          /\ store'.tenantSlug = store.tenantSlug]_vars

\* initSession ended on the persisted tenant
C4_Witness ==
    /\ last.op = "initSession"
    /\ store.isDeviceAuthenticated
    /\ store.tenant = PersistedTenant
    /\ store.isInitialized
    /\ calls.getCurrentTenant = 0
    /\ apiTenantId = DeviceTenantId

\* C5: initSession entered authenticated with no tenant persisted makes
\* one tenant fetch, and never a second; when the fetch resolves, the
\* fetched tenant is stored with the tenantSlug prop if non-empty, else the
\* slug stored until then if non-empty, else the slug of the fetched tenant.
C5_FetchedTenantStored ==
    /\ [](calls.getCurrentTenant <= 1)
    /\ [][(InitEntered /\ AuthenticatedAtEntry /\ store.tenant = NoTenant)
          => /\ calls.getCurrentTenant = 0
             /\ calls'.getCurrentTenant = 1
             /\ initPc' = "fetching"
             /\ store' = store]_vars
    /\ [][last'.op = "InitFetchResolve"
          => /\ store'.tenant \in FetchedTenants
             /\ store'.tenantSlug =
                    IF tenantSlugProp \notin {NULL, ""} THEN tenantSlugProp
                    ELSE IF store.tenantSlug \notin {NULL, ""}
                         THEN store.tenantSlug
                    ELSE store'.tenant.slug
             /\ store'.isInitialized
             /\ Session(store') = Session(store)]_vars

\* a fetched tenant was stored under the prop's slug, a stored slug passed over
C5_Witness ==
    /\ last.op = "InitFetchResolve"
    /\ store.tenant \in FetchedTenants
    /\ initClosure.storedTenantSlug = "stored-slug"
    /\ store.tenantSlug = "prop-slug"
    /\ calls.getCurrentTenant = 1

ClearedSession == <<NoDevice, FALSE, NULL, NULL, NoExpiry>>

\* C6: when the tenant fetch of initSession rejects, the device session is
\* cleared if the error carries status 401 or 403 and is left as it was
\* for every other error; isInitialized is true afterwards either way.
C6_FetchFailure ==
    [][last'.op = "InitFetchReject"
       => /\ store'.isInitialized
          /\ IF last'.error.hasStatus /\ last'.error.status \in {401, 403}
             THEN /\ Session(store') = ClearedSession
                  /\ ~store'.isDeviceAuthenticated
             ELSE Session(store') = Session(store)
          /\ store'.tenant = store.tenant
          /\ store'.tenantSlug = store.tenantSlug]_vars

\* a tenant fetch failed with status 500 and the session stayed authenticated
C6_Witness ==
    /\ last.op = "InitFetchReject"
    /\ last.error.status = 500
    /\ store.isDeviceAuthenticated
    /\ store.accessToken # NULL
    /\ store.isInitialized

\* a step that ran proactiveRefresh: the interval, or the effect starting it
RefreshTick ==
    \/ last'.op = "IntervalTick"
    \/ last'.op = "RefreshIntervalEffect" /\ isHydrated

\* the session read at the tick is authenticated, holds a refresh token and
\* its access token expires within 5 minutes of the time of the tick
DueAtTick ==
    /\ store.isDeviceAuthenticated
    /\ store.refreshToken # NULL
    /\ store.accessTokenExpiresAt - now' <= 5 * 60 * 1000

\* a step that issued a refreshDeviceToken call
RefreshCalled ==
    \E r \in RefreshTokens : refreshInFlight'[r] > refreshInFlight[r]

\* C7: a tick that finds the refresh due issues one refresh call, with the
\* refresh token read at the tick; when the call resolves, accessToken,
\* refreshToken and expiry become those of its response in one step and
\* nothing else changes; when it rejects, the store does not change.
C7_RefreshOutcome ==
    /\ [][(RefreshTick /\ DueAtTick)
          => /\ refreshInFlight' =
                    [refreshInFlight EXCEPT ![store.refreshToken] = @ + 1]
             /\ store' = store]_vars
    /\ [][last'.op = "RefreshResolve"
          => /\ store' =
                    [store EXCEPT
                        !.accessToken = last'.response.accessToken,
                        !.refreshToken = last'.response.refreshToken,
                        !.accessTokenExpiresAt =
                            now + last'.response.expiresIn * 1000]
             /\ refreshInFlight' =
                    [refreshInFlight EXCEPT ![last'.sent] = @ - 1]]_vars
    /\ [][last'.op = "RefreshReject"
          => /\ store' = store
             /\ refreshInFlight' =
                    [refreshInFlight EXCEPT ![last'.sent] = @ - 1]]_vars

\* a refresh call rejected and the session is still authenticated
C7_Witness ==
    /\ last.op = "RefreshReject"
    /\ store.isDeviceAuthenticated
    /\ store.accessToken = "a0"
    /\ store.refreshToken = last.sent

\* C8: a tick that does not find the refresh due issues no refresh call
\* and changes no session state; every refresh call is issued by a tick
\* that found it due.
C8_RefreshNoOp ==
    /\ [][(RefreshTick /\ ~DueAtTick)
          => /\ refreshInFlight' = refreshInFlight
             /\ store' = store]_vars
    /\ [][RefreshCalled => (RefreshTick /\ DueAtTick)]_vars

\* a tick passed over a session that is not authenticated, though it holds a
\* refresh token and its access token is about to expire
C8_Witness ==
    /\ last.op = "IntervalTick"
    /\ ~store.isDeviceAuthenticated
    /\ store.refreshToken # NULL
    /\ store.accessTokenExpiresAt - now <= 5 * 60 * 1000
    /\ \A r \in RefreshTokens : refreshInFlight[r] = 0

\* C9: refresh calls are issued only by the mounted, hydrated provider; at
\* most one interval is live, and none before hydration or after unmount.
C9_IntervalLifetime ==
    /\ [](/\ intervals <= 1
          /\ ~mounted => intervals = 0
          /\ ~isHydrated => intervals = 0
          /\ ~isHydrated => \A r \in RefreshTokens : refreshInFlight[r] = 0)
    /\ [][RefreshCalled => (mounted /\ isHydrated)]_vars

\* check intervals passed after unmount over a session due for refresh
C9_Witness ==
    /\ ~mounted
    /\ isHydrated
    /\ last.op = "TimePasses"
    /\ now >= 2 * REFRESH_CHECK_INTERVAL_MS
    /\ store.isDeviceAuthenticated
    /\ store.refreshToken # NULL
    /\ store.accessTokenExpiresAt - now <= 5 * 60 * 1000
    /\ \A r \in RefreshTokens : refreshInFlight[r] = 0

\* C10: isDeviceAuthenticated implies that deviceInfo and accessToken are
\* present, in every reachable state.
C10_AuthenticatedHasCredentials ==
    store.isDeviceAuthenticated
    => (store.deviceInfo # NoDevice /\ store.accessToken # NULL)

\* a refresh resolved after unmount, into a session that had been cleared
C10_Witness ==
    /\ last.op = "RefreshResolve"
    /\ ~mounted
    /\ initPc = "done"
    /\ ~store.isDeviceAuthenticated
    /\ store.deviceInfo = NoDevice
    /\ store.accessToken # NULL


\* a step in which initSession called getCurrentTenant
TenantFetchCalled == calls'.getCurrentTenant = calls.getCurrentTenant + 1

\* the tenant fetch of initSession is issued with the device's tenant id
\* registered: api.setTenantId precedes getCurrentTenant in initSession
C11_FetchAfterRegistration ==
    [][TenantFetchCalled
       => /\ apiTenantId' = store.deviceInfo.tenantId
          /\ calls'.setTenantId >= 1]_vars

\* C11: every remote call the controller issues, the tenant fetch of
\* initSession and each proactive refreshDeviceToken call, is issued with
\* the device's tenant id already registered with the API client.
C11_TenantScopedCalls ==
    /\ C11_FetchAfterRegistration
    /\ [][RefreshCalled
          => /\ apiTenantId = store.deviceInfo.tenantId
             /\ calls.setTenantId >= 1]_vars

====
